---- MODULE Spec2Model ----
(***************************************************************************)
(* Prepared-statement memoization cache (package zimemo).                  *)
(*                                                                         *)
(* The cache is an LRU index (hashicorp/golang-lru/v2, built with          *)
(* NewWithEvict) from the md5 fingerprint of a query text to a `statement` *)
(* wrapper holding a positional handle (sqlx.Stmt), an optional named      *)
(* handle (sqlx.NamedStmt) and the query text.  A statement handle is the  *)
(* number of the statement, in the order the database prepared them, with  *)
(* the text it was prepared from; a named handle is identified by the      *)
(* statement it wraps (NamedStmt.Close closes exactly that statement).     *)
(***************************************************************************)
EXTENDS Integers, Sequences, FiniteSets, TLC

\* ---- bounds of the model ------------------------------------------------
MaxCap == 2        \* largest capacity a cache is constructed with
MaxStmts == 3      \* statements the database prepares in one behaviour
MaxCalls == 3      \* calls the goroutines make in one behaviour

\* ---- program constants ----------------------------------------------------
DefaultSize == 256 \* capacity the provider falls back to (param.Size = 256)

\* ---- inputs ---------------------------------------------------------------
\* Query texts.  "a" and "A" differ only in letter case, "b" is a different
\* text; all three share one fingerprint (a forced digest collision).
\* "c" and "d" have fingerprints of their own.
Queries == {"a", "A", "b", "c", "d"}

\* a nil sqlx.Stmt / sqlx.NamedStmt pointer
NilStmt == [id |-> 0, text |-> ""]

hash(text) ==
    CASE text = "a" -> "k1"
      [] text = "A" -> "k1"
      [] text = "b" -> "k1"
      [] text = "c" -> "k2"
      [] text = "d" -> "k3"
      [] OTHER -> "k0"

\* Unicode simple case folding, on the texts of the model.
ToLower(text) == IF text = "A" THEN "a" ELSE text

EqualFoldAlways(s, t) == TRUE

EqualFold(s, t) == ToLower(s) = ToLower(t)

EmptyStatementUnkeyed(key) ==
    [key |-> "", Stmt |-> NilStmt, NamedStmt |-> NilStmt, Query |-> ""]

\* statement{key: key}: the zero wrapper returned on a miss.
EmptyStatement(key) ==
    [key |-> key, Stmt |-> NilStmt, NamedStmt |-> NilStmt, Query |-> ""]

VARIABLES
    ctor,        \* how the cache was constructed, and the capacity asked for
    size,        \* capacity the LRU was built with; 0: storage is nil
    storage,     \* the LRU's entries, most recently used first
    prepared,    \* number of statements the database has prepared
    closed,      \* numbers of the statements on which Close has been called
    created,     \* value of the zimemo.prepared_statement_created counter
    last,        \* the call that has just returned
    useOrder,    \* fingerprints in the index, most recent use (insertion or hit) first
    run,         \* the successful distinct-fingerprint Prepare calls made on an empty cache
    locked,      \* the mutex of the LRU is held (a call panicked inside the LRU)
    gor,         \* gor[g]: where goroutine g is in its call, and the call's locals
    globalDefaultScope,  \* revelio: the scopeHolder the atomic.Value stores
    scopeCall,   \* scopeCall[g]: the last GetDefault / SetDefault call of goroutine g
    latestSet    \* argument of the latest SetDefault that returned; else the initial scope

vars == <<ctor, size, storage, prepared, closed, created, last, useOrder, run,
          locked, gor, globalDefaultScope, scopeCall, latestSet>>

\* ---- the LRU ---------------------------------------------------------------
Keys(items) == {items[i].key : i \in 1..Len(items)}

IndexOf(items, key) == CHOOSE i \in 1..Len(items) : items[i].key = key

Without(items, i) ==
    [j \in 1..(Len(items) - 1) |-> IF j < i THEN items[j] ELSE items[j + 1]]

LruGetPlaceholder(items, key) ==
    IF key \in Keys(items)
    THEN LET i == IndexOf(items, key)
         IN [found |-> TRUE, value |-> items[i],
             items |-> <<items[i]>> \o Without(items, i)]
    ELSE [found |-> FALSE, value |-> EmptyStatement(""),
          items |-> <<EmptyStatement(key)>> \o items]

LruGetMiss(items, key) ==
    [found |-> FALSE, value |-> EmptyStatement(""), items |-> items]

\* Cache.Get: a found entry becomes the most recently used one; on a miss
\* the value is the zero statement.
LruGet(items, key) ==
    IF key \in Keys(items)
    THEN LET i == IndexOf(items, key)
         IN [found |-> TRUE, value |-> items[i],
             items |-> <<items[i]>> \o Without(items, i)]
    ELSE [found |-> FALSE, value |-> EmptyStatement(""), items |-> items]

LruAddNoEvict(items, key, value, cap) ==
    IF key \in Keys(items)
    THEN [items |-> <<value>> \o Without(items, IndexOf(items, key)),
          evicted |-> <<>>]
    ELSE [items |-> <<value>> \o items, evicted |-> <<>>]

LruAddEvictsOnReplace(items, key, value, cap) ==
    LET kept == IF key \in Keys(items) THEN Without(items, IndexOf(items, key))
                ELSE items
        grown == <<value>> \o kept
    IN IF Len(items) >= cap /\ kept # <<>>
       THEN [items |-> SubSeq(grown, 1, Len(grown) - 1),
             evicted |-> <<grown[Len(grown)]>>]
       ELSE [items |-> grown, evicted |-> <<>>]

LruAddDuplicate(items, key, value, cap) ==
    LET grown == <<value>> \o items
    IN IF Len(grown) > cap
       THEN [items |-> SubSeq(grown, 1, Len(grown) - 1),
             evicted |-> <<grown[Len(grown)]>>]
       ELSE [items |-> grown, evicted |-> <<>>]

\* Cache.Add: an existing key has its value replaced and is moved to the
\* front (no eviction callback); a new key is put in front and, when the
\* list outgrows the capacity, the oldest entry is removed and handed to
\* the eviction callback.
LruAdd(items, key, value, cap) ==
    IF key \in Keys(items)
    THEN [items |-> <<value>> \o Without(items, IndexOf(items, key)),
          evicted |-> <<>>]
    ELSE LET grown == <<value>> \o items
         IN IF Len(grown) > cap
            THEN [items |-> SubSeq(grown, 1, Len(grown) - 1),
                  evicted |-> <<grown[Len(grown)]>>]
            ELSE [items |-> grown, evicted |-> <<>>]

\* The orders in which a range over the LRU's map may visit the entries.
Orders(items) ==
    {[i \in 1..Len(items) |-> items[f[i]]] :
        f \in {h \in [1..Len(items) -> 1..Len(items)] :
                  \A i, j \in 1..Len(items) : h[i] = h[j] => i = j}}

LruPurgeKeepFirst(items) ==
    {[items |-> IF items = <<>> THEN <<>> ELSE <<items[1]>>, evicted |-> e] :
        e \in Orders(items)}

LruPurgeKeep(items) == {[items |-> items, evicted |-> e] : e \in Orders(items)}

\* Cache.Purge: every entry is removed and handed to the eviction callback,
\* in the order of a range over the map of the entries, which Go leaves
\* unspecified: one outcome for each order.
LruPurge(items) == {[items |-> <<>>, evicted |-> e] : e \in Orders(items)}

\* ---- statement handles -----------------------------------------------------
Handles(value) == {value.Stmt.id, value.NamedStmt.id} \ {NilStmt.id}

HandlesOf(items) == UNION {Handles(items[i]) : i \in 1..Len(items)}

\* Stmt.Close (database/sql): the first Close of a statement marks it closed
\* and may return an error (`failing`: the statements whose Close does);
\* a Close of a closed statement returns nil.
CloseFails(id, failing, closedNow) == id \in failing /\ id \notin closedNow

stmtEvictionNamedOnly(value, failing, closedNow) ==
    LET ids == {value.NamedStmt.id} \ {NilStmt.id}
    IN [closing |-> ids,
        warned |-> {id \in ids : CloseFails(id, failing, closedNow)}]

\* stmtEvictionStrategy: the statements Close is called on for one entry
\* (Stmt first, then NamedStmt, whatever the first Close returned) and the
\* statements whose close error is logged as a warning.
stmtEvictionStrategy(value, failing, closedNow) ==
    LET first == IF value.Stmt # NilStmt THEN {value.Stmt.id} ELSE {}
        second == IF value.NamedStmt # NilStmt THEN {value.NamedStmt.id} ELSE {}
    IN [closing |-> first \cup second,
        warned |-> {id \in first : CloseFails(id, failing, closedNow)}
                   \cup {id \in second :
                             CloseFails(id, failing, closedNow \cup first)}]

\* The Close calls stmtEvictionStrategy makes for one entry, in order: each
\* is a Close of the statement the handle wraps.
CloseCalls(value) ==
    (IF value.Stmt # NilStmt THEN <<value.Stmt.id>> ELSE <<>>)
        \o (IF value.NamedStmt # NilStmt THEN <<value.NamedStmt.id>> ELSE <<>>)

\* The Close calls of the eviction callback on the entries of `evicted`.
RECURSIVE EvictionCloseCalls(_)
EvictionCloseCalls(evicted) ==
    IF evicted = <<>> THEN <<>>
    ELSE CloseCalls(Head(evicted)) \o EvictionCloseCalls(Tail(evicted))

EvictLater(evicted, failing, closedNow) == [closing |-> {}, warned |-> {}]

EvictUntilError(evicted, failing, closedNow) ==
    LET stop == {i \in 1..Len(evicted) :
                    stmtEvictionStrategy(evicted[i], failing, closedNow).warned # {}}
        done == {i \in 1..Len(evicted) : \A j \in stop : i <= j}
    IN [closing |-> UNION {stmtEvictionStrategy(evicted[i], failing, closedNow).closing
                               : i \in done},
        warned |-> UNION {stmtEvictionStrategy(evicted[i], failing, closedNow).warned
                               : i \in done}]

\* The eviction callback on every evicted entry, before Add or Purge returns.
EvictAll(evicted, failing, closedNow) ==
    [closing |-> UNION {stmtEvictionStrategy(evicted[i], failing, closedNow).closing
                            : i \in 1..Len(evicted)},
     warned |-> UNION {stmtEvictionStrategy(evicted[i], failing, closedNow).warned
                            : i \in 1..Len(evicted)}]

\* ---- getCachedStmt -----------------------------------------------------------
\* err: "nil" (hit), "miss" (errCacheMiss), "close" (the error of
\* NamedStmt.Close) or "panic" (NamedStmt.Close on a nil NamedStmt pointer).
\* The first half of getCachedStmt: storage.Get and the comparison of the
\* texts.
getCachedStmtGet(items, query) ==
    LET key == hash(query)
        got == LruGet(items, key)
    IN [key |-> key, existing |-> got.value, items |-> got.items,
        outcome |-> IF ~got.found THEN "miss"
                    ELSE IF EqualFold(got.value.Query, query) THEN "hit"
                    ELSE "collision"]

\* The second half, after a collision: existing.NamedStmt.Close(), a nil
\* pointer dereference when the entry has no named handle; the error of the
\* Close is returned with the entry.
getCachedStmtClose(existing, key, failing, closedNow) ==
    IF existing.NamedStmt = NilStmt
    THEN [ret |-> EmptyStatement(""), err |-> "panic", closing |-> {}]
    ELSE IF CloseFails(existing.NamedStmt.id, failing, closedNow)
    THEN [ret |-> existing, err |-> "close",
          closing |-> {existing.NamedStmt.id}]
    ELSE [ret |-> EmptyStatement(key), err |-> "miss",
          closing |-> {existing.NamedStmt.id}]

getCachedStmt(items, query, failing) ==
    LET l == getCachedStmtGet(items, query)
        cl == getCachedStmtClose(l.existing, l.key, failing, closed)
    IN CASE l.outcome = "miss" ->
              [ret |-> EmptyStatement(l.key), err |-> "miss", items |-> l.items,
               closing |-> {}, existing |-> l.existing, found |-> FALSE]
         [] l.outcome = "hit" ->
              [ret |-> l.existing, err |-> "nil", items |-> l.items,
               closing |-> {}, existing |-> l.existing, found |-> TRUE]
         [] OTHER ->
              [ret |-> cl.ret, err |-> cl.err, items |-> l.items,
               closing |-> cl.closing, existing |-> l.existing, found |-> TRUE]

\* ---- the operations ----------------------------------------------------------
\* A call is one step: the calls of this specification are made one after the
\* other.  A call that panics leaves the cache as the panic found it and the
\* next call goes on from there (the HTTP router recovers panics of request
\* handlers with gin.Recovery).
NoCall ==
    [op |-> "none", query |-> "", err |-> "nil", ret |-> EmptyStatement(""),
     asked |-> FALSE, found |-> FALSE, existing |-> EmptyStatement(""),
     dbErr |-> FALSE, counted |-> FALSE, evicted |-> <<>>, closing |-> {},
     failed |-> {}, warned |-> {}, after |-> "other", afterStmt |-> NilStmt]

\* What a call remembers of the call made right before it: for Prepare and
\* PrepareNamed, the operation and the handle of a successful call with the
\* same text, or the handle a Purge removed for that text; for Purge,
\* whether it was a Purge.
Follows(before, opName, query) ==
    LET purged == {i \in 1..Len(before.evicted) : before.evicted[i].Query = query}
    IN IF opName = "Purge"
       THEN [after |-> IF before.op = "Purge" THEN "Purge" ELSE "other",
             afterStmt |-> NilStmt]
       ELSE IF before.op \in {"Prepare", "PrepareNamed"}
               /\ before.err = "nil" /\ before.query = query
            THEN [after |-> before.op, afterStmt |-> before.ret.Stmt]
            ELSE IF before.op = "Purge" /\ purged # {}
            THEN [after |-> "Purge",
                  afterStmt |-> before.evicted[CHOOSE i \in purged : TRUE].Stmt]
            ELSE [after |-> "other", afterStmt |-> NilStmt]

NoRun == [ok |-> TRUE, keys |-> <<>>, evicted |-> <<>>]

BrokenRun == [ok |-> FALSE, keys |-> <<>>, evicted |-> <<>>]

InSeq(seq, x) == \E i \in 1..Len(seq) : seq[i] = x

\* A use of `key` that evicted the entries `evicted`.
Used(order, key, evicted) ==
    LET gone == Keys(evicted)
    IN <<key>> \o SelectSeq(order, LAMBDA y : y # key /\ y \notin gone)

PreparationErrShadowed(lookupErr, dbOk) ==
    IF ~dbOk THEN "prepare" ELSE IF lookupErr = "close" THEN "close" ELSE "nil"

\* `stmt, err := db.PreparexContext(ctx, query)`: the error of the lookup
\* (errCacheMiss or the error of a Close) is overwritten by the error of the
\* preparation, which is what the call returns.
PreparationErr(lookupErr, dbOk) == IF dbOk THEN "nil" ELSE "prepare"

RecordCustomMetricSet(counter, value) == value

\* nrApp.RecordCustomMetric(metricName, value) on a count metric.
RecordCustomMetric(counter, value) == counter + value

\* New(size, app): for a size that is not positive lru.NewWithEvict answers
\* an error, which New drops, and a Cache whose inner list is nil (size 0).
New(n) == IF n > 0 THEN n ELSE 0

\* zimemofx.Provider: a size that is absent or 0 becomes 256.
Provider(n) == New(IF n = 0 THEN DefaultSize ELSE n)

\* The part Prepare and PrepareNamed share: lookup, preparation by the
\* database (dbOk: it succeeds), insertion, counter.  `named` tells which
\* handle the new wrapper gets.  An input the call never reads takes one
\* value, so that one call is one transition.
PrepareWith(opName, named, query, dbOk, failing) ==
    LET c == getCachedStmt(storage, query, failing)
        stmt == [id |-> prepared + 1, text |-> query]
        fresh == [key |-> c.ret.key, Stmt |-> stmt,
                  NamedStmt |-> IF named THEN stmt ELSE NilStmt,
                  Query |-> query]
        added == LruAdd(c.items, fresh.key, fresh, size)
        ev == EvictAll(added.evicted, failing, closed \cup c.closing)
        call == [op |-> opName, query |-> query, found |-> c.found,
                 existing |-> c.existing, warned |-> {}, evicted |-> <<>>,
                 asked |-> FALSE, dbErr |-> FALSE, counted |-> FALSE,
                 closing |-> {}, failed |-> {}]
                    @@ Follows(last, opName, query)
    IN IF locked
       THEN \* storage.Get waits for the mutex, which is never released: the
            \* call does not return
            /\ dbOk /\ failing = {}
            /\ last' = [call EXCEPT !.found = FALSE,
                                    !.existing = EmptyStatement("")]
                          @@ [err |-> "blocked", ret |-> EmptyStatement("")]
            /\ run' = BrokenRun
            /\ UNCHANGED <<globalDefaultScope, scopeCall, latestSet, gor, locked,
                           ctor, size, storage, prepared, closed, created,
                           useOrder>>
       ELSE IF size = 0
       THEN \* the inner list of the Cache is nil: storage.Get locks the
            \* mutex, dereferences the list and panics with the mutex held
            /\ dbOk /\ failing = {}
            /\ locked' = TRUE
            /\ last' = [call EXCEPT !.found = FALSE,
                                    !.existing = EmptyStatement("")]
                          @@ [err |-> "panic", ret |-> EmptyStatement("")]
            /\ run' = BrokenRun
            /\ UNCHANGED <<globalDefaultScope, scopeCall, latestSet, gor,
                           ctor, size, storage, prepared, closed, created,
                           useOrder>>
       ELSE
       /\ c.err \in {"nil", "panic"} => dbOk /\ failing = {}
       /\ CASE c.err = "nil" ->
              \* cache hit: `return cached, nil`
              /\ storage' = c.items
              /\ last' = call @@ [err |-> "nil", ret |-> c.ret]
              /\ useOrder' = Used(useOrder, hash(query), <<>>)
              /\ run' = BrokenRun
              /\ UNCHANGED <<globalDefaultScope, scopeCall, latestSet, gor, locked, ctor, size, prepared, closed, created>>
         [] c.err = "panic" ->
              \* nil pointer dereference in existing.NamedStmt.Close()
              /\ storage' = c.items
              /\ last' = call @@ [err |-> "panic", ret |-> c.ret]
              /\ run' = BrokenRun
              /\ UNCHANGED <<globalDefaultScope, scopeCall, latestSet, gor, locked, ctor, size, prepared, closed, created, useOrder>>
         [] c.err \in {"miss", "close"} /\ ~dbOk ->
              \* `return cached, err` with the error of the preparation
              /\ failing \subseteq c.closing \ closed
              /\ storage' = c.items
              /\ closed' = closed \cup c.closing
              /\ last' = [call EXCEPT !.asked = TRUE, !.dbErr = TRUE,
                                      !.closing = c.closing,
                                      !.failed = failing]
                            @@ [err |-> PreparationErr(c.err, dbOk),
                                ret |-> c.ret]
              /\ run' = BrokenRun
              /\ UNCHANGED <<globalDefaultScope, scopeCall, latestSet, gor, locked, ctor, size, prepared, created, useOrder>>
         [] c.err \in {"miss", "close"} /\ dbOk ->
              \* the statement is prepared, stored (the eviction callback
              \* runs before Add returns) and counted: `return cached, err`
              \* with the nil error of the preparation
              /\ prepared < MaxStmts
              /\ failing \subseteq (c.closing \cup ev.closing) \ closed
              /\ prepared' = prepared + 1
              /\ storage' = added.items
              /\ closed' = closed \cup c.closing \cup ev.closing
              /\ created' = RecordCustomMetric(created, 1)
              /\ last' = [call EXCEPT !.asked = TRUE, !.counted = TRUE,
                                      !.evicted = added.evicted,
                                      !.closing = c.closing \cup ev.closing,
                                      !.failed = failing,
                                      !.warned = ev.warned]
                            @@ [err |-> PreparationErr(c.err, dbOk),
                                ret |-> fresh]
              /\ useOrder' = Used(useOrder, fresh.key, added.evicted)
              /\ run' = IF /\ run.ok
                           /\ ~named
                           /\ ~InSeq(run.keys, fresh.key)
                           /\ Len(run.keys) <= size
                        THEN [ok |-> TRUE, keys |-> Append(run.keys, fresh.key),
                              evicted |-> run.evicted \o added.evicted]
                        ELSE BrokenRun
              /\ UNCHANGED <<globalDefaultScope, scopeCall, latestSet, gor, locked, ctor, size>>

\* The open statements a call may call Close on: the named handle of a
\* colliding entry and the handles of the entry an insertion would evict;
\* for Purge, every handle in the index.
MayClose(query) ==
    LET c == getCachedStmt(storage, query, {})
        added == LruAdd(c.items, hash(query), EmptyStatement(hash(query)), size)
    IN (c.closing \cup HandlesOf(added.evicted)) \ closed

\* Prepare: db.PreparexContext makes the positional handle.
Prepare(query, dbOk) ==
    /\ query # ""
    /\ \E failing \in SUBSET MayClose(query) :
           PrepareWith("Prepare", FALSE, query, dbOk, failing)

\* PrepareNamed: db.PrepareNamedContext makes the named handle, whose
\* statement also becomes the positional handle of the wrapper.
PrepareNamed(query, dbOk) ==
    /\ query # ""
    /\ \E failing \in SUBSET MayClose(query) :
           PrepareWith("PrepareNamed", TRUE, query, dbOk, failing)

PurgeWith(p, failing) ==
    LET ev == EvictAll(p.evicted, failing, closed)
    IN IF locked
       THEN \* storage.Purge waits for the mutex, which is never released
            /\ failing = {}
            /\ last' = [NoCall EXCEPT !.op = "Purge", !.err = "blocked",
                                      !.after = Follows(last, "Purge", "").after]
            /\ run' = BrokenRun
            /\ UNCHANGED <<globalDefaultScope, scopeCall, latestSet, gor, locked,
                           ctor, size, storage, prepared, closed, created,
                           useOrder>>
       ELSE IF size = 0
       THEN \* the inner list of the Cache is nil: storage.Purge locks the
            \* mutex, dereferences the list and panics with the mutex held
            /\ failing = {}
            /\ locked' = TRUE
            /\ last' = [NoCall EXCEPT !.op = "Purge", !.err = "panic",
                                      !.after = Follows(last, "Purge", "").after]
            /\ run' = BrokenRun
            /\ UNCHANGED <<globalDefaultScope, scopeCall, latestSet, gor,
                           ctor, size, storage, prepared, closed, created,
                           useOrder>>
       ELSE
       /\ failing \subseteq ev.closing \ closed
       /\ storage' = p.items
       /\ closed' = closed \cup ev.closing
       /\ last' = [NoCall EXCEPT !.op = "Purge", !.evicted = p.evicted,
                                 !.closing = ev.closing,
                                 !.failed = failing,
                                 !.warned = ev.warned,
                                 !.after = Follows(last, "Purge", "").after]
       /\ useOrder' = <<>>
       /\ run' = NoRun
       /\ UNCHANGED <<globalDefaultScope, scopeCall, latestSet, gor, locked, ctor, size, prepared, created>>

\* Purge: storage.Purge, the eviction callback on every entry.
Purge ==
    \E p \in LruPurge(storage), failing \in SUBSET (HandlesOf(storage) \ closed) :
        PurgeWith(p, failing)

\* ---- the calls of several goroutines ---------------------------------------
\* One shared cache, one call at a time per goroutine.  A step is what a
\* call does to one shared object at one moment: storage.Get (under the
\* LRU's lock), the Close of a colliding entry's named handle, the
\* preparation by the database, storage.Add or storage.Purge (under the
\* lock), each Close of the eviction callbacks (which the LRU runs one after
\* the other once it has released the lock), and the counter with the return.
Goroutines == {"g1", "g2"}

\* The texts the goroutines ask for: two of one fingerprint, one of another.
GoQueries == {"a", "b", "c"}

Idle ==
    [pc |-> "idle", calls |-> 0, op |-> "none", query |-> "", err |-> "nil",
     cached |-> EmptyStatement(""), closes |-> <<>>, startCreated |-> 0,
     startMiss |-> FALSE, purgedDuring |-> {}, retClosed |-> {}, stale |-> {}]

RECURSIVE CallsOf(_)
CallsOf(gs) ==
    IF gs = {} THEN 0
    ELSE LET g == CHOOSE h \in gs : TRUE
         IN gor[g].calls + CallsOf(gs \ {g})

\* A goroutine begins a call: the locals of its last call are gone.
Begin(g, opName, query) ==
    [Idle EXCEPT !.calls = gor[g].calls + 1, !.op = opName, !.query = query,
                 !.startCreated = created,
                 !.startMiss = hash(query) \notin Keys(storage)]

GoFrame ==
    UNCHANGED <<ctor, size, last, useOrder, run,
                globalDefaultScope, scopeCall, latestSet>>

\* What the caller holds when a successful call returns.
Returned(call) ==
    [call EXCEPT !.pc = "idle", !.err = "nil", !.closes = <<>>,
                 !.retClosed = Handles(call.cached) \cap closed,
                 !.stale = Handles(call.cached) \cap call.purgedDuring]

\* The call's first use of the LRU when its mutex is held for ever (the call
\* waits and never returns) or its inner list is nil (the call panics with
\* the mutex held).
GoBroken(g, call) ==
    /\ locked \/ size = 0
    /\ locked' = TRUE
    /\ gor' = [gor EXCEPT ![g] =
           IF locked THEN [call EXCEPT !.pc = "blocked"]
           ELSE [call EXCEPT !.err = "panic"]]
    /\ UNCHANGED <<storage, prepared, closed, created>>
    /\ GoFrame

\* impl.getCachedStmt(query), first statement of Prepare and PrepareNamed,
\* up to the comparison of the texts.
GoLookup(g, opName, query) ==
    LET l == getCachedStmtGet(storage, query)
        call == Begin(g, opName, query)
    IN /\ gor[g].pc = "idle"
       /\ CallsOf(Goroutines) < MaxCalls
       /\ IF locked \/ size = 0
          THEN GoBroken(g, call)
          ELSE /\ storage' = l.items
               /\ gor' = [gor EXCEPT ![g] =
                      CASE l.outcome = "hit" ->
                               [call EXCEPT !.pc = "return", !.cached = l.existing]
                        [] l.outcome = "miss" ->
                               [call EXCEPT !.pc = "prepare", !.err = "miss",
                                            !.cached = EmptyStatement(l.key)]
                        [] OTHER ->
                               [call EXCEPT !.pc = "close", !.cached = l.existing]]
               /\ UNCHANGED <<prepared, closed, created, locked>>
               /\ GoFrame

\* existing.NamedStmt.Close() in getCachedStmt (fails: the Close answers an
\* error, which only the first Close of a statement can).
GoClose(g, fails) ==
    LET named == gor[g].cached.NamedStmt
        r == getCachedStmtClose(gor[g].cached, hash(gor[g].query),
                                IF fails THEN {named.id} ELSE {}, closed)
    IN /\ gor[g].pc = "close"
       /\ fails => (named # NilStmt /\ named.id \notin closed)
       /\ closed' = closed \cup r.closing
       /\ gor' = [gor EXCEPT ![g].cached = r.ret, ![g].err = r.err,
                             ![g].pc = IF r.err = "panic" THEN "idle"
                                       ELSE "prepare"]
       /\ UNCHANGED <<storage, prepared, created, locked>>
       /\ GoFrame

\* `return cached, nil` after a hit.
GoReturn(g) ==
    /\ gor[g].pc = "return"
    /\ gor' = [gor EXCEPT ![g] = Returned(gor[g])]
    /\ UNCHANGED <<storage, prepared, closed, created, locked>>
    /\ GoFrame

\* db.PreparexContext / db.PrepareNamedContext, and the wrapper built from
\* the statement; a failed preparation returns its error with `cached`.
GoPrepare(g, dbOk) ==
    LET stmt == [id |-> prepared + 1, text |-> gor[g].query]
        fresh == [key |-> gor[g].cached.key, Stmt |-> stmt,
                  NamedStmt |-> IF gor[g].op = "PrepareNamed" THEN stmt
                                ELSE NilStmt,
                  Query |-> gor[g].query]
    IN /\ gor[g].pc = "prepare"
       /\ IF dbOk
          THEN /\ prepared < MaxStmts
               /\ prepared' = prepared + 1
               /\ gor' = [gor EXCEPT ![g].pc = "add", ![g].cached = fresh]
          ELSE /\ prepared' = prepared
               /\ gor' = [gor EXCEPT ![g].pc = "idle",
                                     ![g].err = PreparationErr(gor[g].err, dbOk)]
       /\ UNCHANGED <<storage, closed, created, locked>>
       /\ GoFrame

\* impl.storage.Add(cached.key, cached), up to the release of the lock.
GoAdd(g) ==
    LET added == LruAdd(storage, gor[g].cached.key, gor[g].cached, size)
        closes == EvictionCloseCalls(added.evicted)
    IN /\ gor[g].pc = "add"
       /\ storage' = added.items
       /\ gor' = [gor EXCEPT ![g].closes = closes,
                             ![g].pc = IF closes = <<>> THEN "count"
                                       ELSE "evict"]
       /\ UNCHANGED <<prepared, closed, created, locked>>
       /\ GoFrame

\* The next Close of the eviction callbacks on the entries Add or Purge
\* removed.  The calls in flight remember the statements a Purge closed
\* under them.
GoEvict(g) ==
    LET id == Head(gor[g].closes)
        rest == Tail(gor[g].closes)
        purge == gor[g].op = "Purge"
    IN /\ gor[g].pc = "evict"
       /\ closed' = closed \cup {id}
       /\ gor' = [h \in Goroutines |->
              IF h = g
              THEN [gor[g] EXCEPT !.closes = rest,
                                  !.pc = IF rest # <<>> THEN "evict"
                                         ELSE IF purge THEN "idle"
                                         ELSE "count"]
              ELSE IF purge /\ gor[h].pc \notin {"idle", "blocked"}
                   THEN [gor[h] EXCEPT !.purgedDuring = @ \cup {id}]
                   ELSE gor[h]]
       /\ UNCHANGED <<storage, prepared, created, locked>>
       /\ GoFrame

\* impl.nrApp.RecordCustomMetric(metricName, 1) and `return cached, err`.
GoCount(g) ==
    /\ gor[g].pc = "count"
    /\ created' = RecordCustomMetric(created, 1)
    /\ gor' = [gor EXCEPT ![g] = Returned(gor[g])]
    /\ UNCHANGED <<storage, prepared, closed, locked>>
    /\ GoFrame

\* impl.storage.Purge(), up to the release of the lock.
GoPurge(g) ==
    LET call == Begin(g, "Purge", "")
    IN /\ gor[g].pc = "idle"
       /\ CallsOf(Goroutines) < MaxCalls
       /\ IF locked \/ size = 0
          THEN GoBroken(g, call)
          ELSE \E p \in LruPurge(storage) :
                  LET closes == EvictionCloseCalls(p.evicted)
                  IN /\ storage' = p.items
                     /\ gor' = [gor EXCEPT ![g] =
                            [call EXCEPT !.closes = closes,
                                         !.pc = IF closes = <<>> THEN "idle"
                                                ELSE "evict"]]
                     /\ UNCHANGED <<prepared, closed, created, locked>>
                     /\ GoFrame

NextGo ==
    \E g \in Goroutines :
        \/ \E q \in GoQueries, opName \in {"Prepare", "PrepareNamed"} :
               GoLookup(g, opName, q)
        \/ \E fails \in BOOLEAN : GoClose(g, fails)
        \/ GoReturn(g)
        \/ \E dbOk \in BOOLEAN : GoPrepare(g, dbOk)
        \/ GoAdd(g)
        \/ GoEvict(g)
        \/ GoCount(g)
        \/ GoPurge(g)

\* ---- the global default metrics scope (package revelio) ------------------
\* A Scope is an interface value: nil, the scope package initialisation
\* builds around the no-op meter, or a scope the application made.
NilScope == "nil"

Scopes == {"noop", "s1", "s2"}

\* initDefaultScope: v.Store(scopeHolder{scope: NewFromMeter(meter)}).
initDefaultScope == [scope |-> "noop"]

NoScopeCall ==
    [op |-> "none", arg |-> NilScope, ret |-> NilScope, err |-> "nil",
     latest |-> NilScope]

SetDefaultUnchecked(holder, s) == [err |-> "nil", holder |-> [scope |-> s]]

\* The body of SetDefault: a nil argument panics before the Store.
SetDefaultBody(holder, s) ==
    IF s = NilScope
    THEN [err |-> "panic", holder |-> holder]
    ELSE [err |-> "nil", holder |-> [scope |-> s]]

CacheFrame ==
    UNCHANGED <<ctor, size, storage, prepared, closed, created, last, useOrder,
                run, locked, gor>>

\* GetDefault: globalDefaultScope.Load().(scopeHolder).scope.  A call reads
\* or writes the atomic.Value once; the step is that access.
GetDefault(g) ==
    /\ scopeCall' = [scopeCall EXCEPT ![g] =
           [op |-> "GetDefault", arg |-> NilScope,
            ret |-> globalDefaultScope.scope, err |-> "nil",
            latest |-> latestSet]]
    /\ UNCHANGED <<globalDefaultScope, latestSet>>
    /\ CacheFrame

SetDefault(g, s) ==
    LET r == SetDefaultBody(globalDefaultScope, s)
    IN /\ globalDefaultScope' = r.holder
       /\ latestSet' = IF r.err = "nil" THEN s ELSE latestSet
       /\ scopeCall' = [scopeCall EXCEPT ![g] =
              [op |-> "SetDefault", arg |-> s, ret |-> NilScope, err |-> r.err,
               latest |-> latestSet']]
       /\ CacheFrame

NextScope ==
    \E g \in Goroutines :
        \/ GetDefault(g)
        \/ \E s \in Scopes \cup {NilScope} : SetDefault(g, s)

Empty ==
    /\ locked = FALSE
    /\ globalDefaultScope = initDefaultScope
    /\ scopeCall = [g \in Goroutines |-> NoScopeCall]
    /\ latestSet = initDefaultScope.scope
    /\ gor = [g \in Goroutines |-> Idle]
    /\ storage = <<>>
    /\ prepared = 0
    /\ closed = {}
    /\ created = 0
    /\ last = NoCall
    /\ useOrder = <<>>
    /\ run = NoRun

\* New(size, app) with size >= 1.
Init ==
    /\ \E n \in 1..MaxCap : ctor = [by |-> "New", given |-> n] /\ size = New(n)
    /\ Empty

Next ==
    \/ \E q \in Queries, dbOk \in BOOLEAN : Prepare(q, dbOk)
    \/ \E q \in Queries, dbOk \in BOOLEAN : PrepareNamed(q, dbOk)
    \/ Purge

Spec == Init /\ [][Next]_vars

\* The cache as either constructor makes it: New(size, app), or the
\* provider with a size that may be absent (0).
InitNew ==
    /\ \E by \in {"New", "Provider"}, n \in 0..MaxCap :
           /\ ctor = [by |-> by, given |-> n]
           /\ size = IF by = "New" THEN New(n) ELSE Provider(n)
    /\ Empty

SpecNew == InitNew /\ [][Next]_vars

SpecGo == Init /\ [][NextGo]_vars

\* The steps that carry on a call goroutine g has begun.  Each goroutine is
\* scheduled again and again, and the database answers every preparation
\* and every Close.
GoStep(g) ==
    \/ \E fails \in BOOLEAN : GoClose(g, fails)
    \/ GoReturn(g)
    \/ \E dbOk \in BOOLEAN : GoPrepare(g, dbOk)
    \/ GoAdd(g)
    \/ GoEvict(g)
    \/ GoCount(g)

\* The goroutines on a cache that either constructor made.
SpecGoFair ==
    InitNew /\ [][NextGo]_vars /\ \A g \in Goroutines : WF_vars(GoStep(g))

SpecScope == Init /\ [][NextScope]_vars

Quiescent == \A g \in Goroutines : gor[g].pc = "idle"

TypeOK ==
    /\ size \in 1..MaxCap
    /\ created \in 0..MaxStmts
    /\ closed \subseteq 1..prepared
    /\ HandlesOf(storage) \subseteq 1..prepared

\* ---- the claims ----------------------------------------------------------------
IsPrepareCall(call) == call.op \in {"Prepare", "PrepareNamed"}

EntriesAt(items, key) == {i \in 1..Len(items) : items[i].key = key}

EntrySet(items) == {items[i] : i \in 1..Len(items)}

\* C1: a Prepare that directly follows a successful Prepare of the same exact
\* text does not ask the database to prepare anything, returns the handle
\* the earlier call returned and does not touch the creation counter.
C1_RepeatedPrepareHits ==
    (last.op = "Prepare" /\ last.after = "Prepare") =>
        /\ last.err = "nil"
        /\ ~last.asked
        /\ ~last.counted
        /\ last.ret.Stmt = last.afterStmt
        /\ last.ret.Stmt # NilStmt

C1_Witness ==
    /\ last.op = "Prepare" /\ last.after = "Prepare"
    /\ last.err = "nil" /\ last.ret.Stmt.id \in 1..prepared

\* C2: the index never holds more than `size` entries; and after size+1
\* successful Prepare calls with pairwise distinct fingerprints on an empty
\* cache exactly one entry has been evicted, its handle is closed, and the
\* index holds the other `size` entries.
C2_CapacityBound ==
    /\ Len(storage) <= size
    /\ (run.ok /\ Len(run.keys) = size + 1) =>
           /\ Len(run.evicted) = 1
           /\ Handles(run.evicted[1]) # {}
           /\ Handles(run.evicted[1]) \subseteq closed
           /\ Len(storage) = size
           /\ run.evicted[1].key \notin Keys(storage)

C2_Witness == run.ok /\ Len(run.keys) = size + 1 /\ size > 1

\* C3: an insertion into a full cache evicts the entry whose most recent use
\* (its insertion or its latest cache hit) is the oldest.
C3_EvictsLeastRecentlyUsed ==
    [][(IsPrepareCall(last') /\ last'.evicted # <<>>) =>
          (/\ Len(last'.evicted) = 1
           /\ last'.evicted[1].key = useOrder[Len(useOrder)])]_vars

\* C4: a Prepare whose text differs from the text of the entry found under
\* its fingerprint closes every handle of that entry and returns a handle
\* freshly prepared from its own text (so does the Prepare of the first text
\* that follows it).
C4_CollisionReplaces ==
    (/\ last.op = "Prepare" /\ last.found
     /\ last.existing.Query # last.query
     /\ last.err # "prepare") =>
        /\ last.err = "nil"
        /\ last.asked
        /\ Handles(last.existing) \subseteq closed
        /\ last.ret.Stmt.text = last.query
        /\ last.ret.Stmt.id \notin Handles(last.existing)

\* C5: every handle of a statement returned by a successful Prepare or
\* PrepareNamed was prepared from a text equal, up to letter case, to the
\* text of the call.
C5_ReturnedStatementMatchesQuery ==
    (IsPrepareCall(last) /\ last.err = "nil") =>
        /\ last.ret.Stmt # NilStmt
        /\ \A h \in {last.ret.Stmt, last.ret.NamedStmt} \ {NilStmt} :
               ToLower(h.text) = ToLower(last.query)

C5_Witness ==
    /\ IsPrepareCall(last) /\ last.err = "nil"
    /\ last.found /\ ToLower(last.existing.Query) # ToLower(last.query)
    /\ last.ret.Stmt.text = last.query

\* C6: after Prepare(Q) directly followed by PrepareNamed(Q) the index holds
\* one entry for Q's fingerprint with a positional and a named handle, the
\* positional handle of the first call is still held and open, and evicting
\* the entry closes both handles.
C6_BothHandlesCoexist ==
    (last.op = "PrepareNamed" /\ last.after = "Prepare" /\ last.err = "nil") =>
        /\ Cardinality(EntriesAt(storage, hash(last.query))) = 1
        /\ \A i \in EntriesAt(storage, hash(last.query)) :
               /\ storage[i].Stmt = last.afterStmt
               /\ storage[i].Stmt.id \notin closed
               /\ storage[i].NamedStmt # NilStmt
               /\ {storage[i].Stmt.id, storage[i].NamedStmt.id}
                      \subseteq stmtEvictionStrategy(storage[i], {}, closed).closing

\* C7: a successful PrepareNamed returns a statement whose named handle is
\* present and open.
C7_NamedHandlePresent ==
    (last.op = "PrepareNamed" /\ last.err = "nil") =>
        /\ last.ret.NamedStmt # NilStmt
        /\ last.ret.NamedStmt.id \notin closed

\* C8: a call whose preparation fails returns that error and leaves the
\* entries of the cache and the open/closed status of every handle as they
\* were.
C8_FailedPrepareLeavesCache ==
    [][(last'.err = "prepare") =>
          (/\ last'.asked
           /\ EntrySet(storage') = EntrySet(storage)
           /\ closed' = closed)]_vars

\* C9: when Purge returns the index is empty and every handle an entry held
\* when it started is closed.
C9_PurgeEmptiesAndCloses ==
    [][(last'.op = "Purge") =>
          (/\ storage' = <<>>
           /\ HandlesOf(storage) \subseteq closed')]_vars

C9_Witness ==
    /\ last.op = "Purge" /\ Len(last.evicted) > 1
    /\ \E i \in 1..Len(last.evicted) : last.evicted[i].NamedStmt # NilStmt
    /\ \E i \in 1..Len(last.evicted) : last.evicted[i].NamedStmt = NilStmt

\* C10: a Purge made directly after a Purge closes no handle, changes
\* nothing in the cache and reports no error.
C10_PurgeIdempotent ==
    [][(last.op = "Purge" /\ last'.op = "Purge") =>
          (/\ storage' = storage
           /\ closed' = closed
           /\ prepared' = prepared
           /\ created' = created
           /\ last'.closing = {}
           /\ last'.evicted = <<>>
           /\ last'.err = "nil")]_vars

C10_Witness ==
    /\ last.op = "Purge" /\ last.after = "Purge"
    /\ closed # {} /\ closed = 1..prepared

\* C13: no entry of the index holds a handle that has been closed, and a
\* cache hit never returns one.
C13_NoClosedHandleServed ==
    /\ HandlesOf(storage) \cap closed = {}
    /\ (IsPrepareCall(last) /\ last.err = "nil" /\ ~last.asked) =>
           Handles(last.ret) \cap closed = {}

\* C15: no Prepare or PrepareNamed call on a constructed cache panics.
C15_NoPanic == IsPrepareCall(last) => last.err # "panic"

\* C16: a Prepare or PrepareNamed call that returns, returns an error
\* exactly when the preparation it asked of the database failed, and that
\* error is the preparation's; the error of a Close is never returned.
C16_OnlyPreparationErrorsReturned ==
    (IsPrepareCall(last) /\ last.err # "panic") =>
        /\ last.err \in {"nil", "prepare"}
        /\ (last.err = "prepare") <=> (last.asked /\ last.dbErr)

C16_Witness ==
    /\ last.op = "Prepare" /\ last.err = "nil" /\ last.asked
    /\ last.found /\ last.failed \cap Handles(last.existing) # {}

\* C17: for every entry removed by an eviction or by Purge, Close has been
\* called on each of its handles whatever the other closes returned, the
\* entry is no longer in the index, and every close failure has been logged.
C17_CloseFailureNeverStopsCleanup ==
    last.evicted # <<>> =>
        /\ HandlesOf(last.evicted) \subseteq last.closing
        /\ HandlesOf(last.evicted) \subseteq closed
        /\ Keys(last.evicted) \cap Keys(storage) = {}
        /\ last.warned = last.failed
        /\ last.op = "Purge" => storage = <<>>

C17_Witness ==
    /\ last.op = "Purge" /\ Cardinality(last.failed) > 1
    /\ last.warned = last.failed

\* C18: the creation counter never decreases, grows by exactly 1 with each
\* statement the database prepares and by nothing otherwise, so that it
\* equals the number of successful preparations.
C18_CounterCountsCreations ==
    [][/\ created = prepared
       /\ created' >= created
       /\ created' - created = prepared' - prepared
       /\ created' = prepared'
       /\ (created' # created) => (last'.asked /\ last'.err = "nil")]_vars

C18_Witness ==
    /\ created > 1 /\ created = prepared
    /\ last.op = "Purge" /\ last.evicted # <<>>

\* C19: when a Prepare or PrepareNamed call has evicted an entry, every
\* handle of that entry is closed when the call returns.
C19_EvictionSynchronous ==
    (IsPrepareCall(last) /\ last.evicted # <<>>) =>
        /\ HandlesOf(last.evicted) # {}
        /\ HandlesOf(last.evicted) \subseteq closed

C19_Witness ==
    /\ last.op = "PrepareNamed" /\ last.err = "nil" /\ Len(last.evicted) = 1
    /\ last.evicted[1].NamedStmt # NilStmt

\* C23: every entry of the index is stored under the fingerprint of its own
\* text, and each handle it holds was prepared from exactly that text.
C23_EntryMatchesItsText ==
    \A i \in 1..Len(storage) :
        /\ storage[i].key = hash(storage[i].Query)
        /\ storage[i].Stmt # NilStmt
        /\ \A h \in {storage[i].Stmt, storage[i].NamedStmt} \ {NilStmt} :
               h.text = storage[i].Query

C23_Witness ==
    /\ Len(storage) = 2
    /\ last.found /\ last.err = "nil" /\ last.asked
    /\ last.existing.Query # last.query
    /\ storage[1].Query = last.query /\ storage[1].NamedStmt # NilStmt

\* How many times a call called Close on statement `id`: in the lookup (the
\* named handle of a colliding entry) and in the eviction callback.
TimesClosed(call, id) ==
    LET inLookup == call.closing \ HandlesOf(call.evicted)
        calls == EvictionCloseCalls(call.evicted)
    IN (IF id \in inLookup THEN 1 ELSE 0)
       + Cardinality({k \in 1..Len(calls) : calls[k] = id})

\* C25: no call calls Close on a statement that is already closed, or twice
\* on one statement.
C25_NoDoubleClose ==
    [][\A id \in 1..prepared' :
          \/ TimesClosed(last', id) = 0
          \/ TimesClosed(last', id) = 1 /\ id \notin closed]_vars

\* C27: a Prepare that directly follows a successful PrepareNamed of the same
\* text is a hit: it asks the database for nothing, does not count, and
\* returns the entry of the earlier call, whose positional handle is the
\* statement of its named handle.
C27_PrepareAfterNamedHits ==
    (last.op = "Prepare" /\ last.after = "PrepareNamed") =>
        /\ last.err = "nil"
        /\ last.found
        /\ ~last.asked
        /\ ~last.counted
        /\ last.ret = last.existing
        /\ last.ret.Stmt = last.afterStmt
        /\ last.ret.Stmt # NilStmt
        /\ last.ret.NamedStmt = last.ret.Stmt

\* C28: a call that finds no entry under its fingerprint and whose
\* preparation fails changes neither the entries, nor their order, nor the
\* status of any handle, nor the counter.
C28_FailedMissChangesNothing ==
    [][(IsPrepareCall(last') /\ last'.err = "prepare" /\ ~last'.found) =>
          (/\ storage' = storage
           /\ closed' = closed
           /\ created' = created
           /\ prepared' = prepared
           /\ useOrder' = useOrder)]_vars

C28_Witness ==
    /\ IsPrepareCall(last) /\ last.err = "prepare" /\ ~last.found
    /\ Len(storage) = 2 /\ closed # {}

\* C29: a call that replaces the entry found under its fingerprint keeps the
\* number of entries and every other entry, evicts nothing, closes nothing
\* but the replaced entry's handles, and puts the new entry in front.
C29_ReplacementKeepsOthers ==
    [][(IsPrepareCall(last') /\ last'.found /\ last'.asked
            /\ last'.err = "nil") =>
          (/\ Len(storage') = Len(storage)
           /\ last'.evicted = <<>>
           /\ last'.closing \subseteq Handles(last'.existing)
           /\ storage'[1] = last'.ret
           /\ EntrySet(storage') \ {last'.ret}
                  = EntrySet(storage) \ {last'.existing})]_vars

C29_Witness ==
    /\ IsPrepareCall(last) /\ last.found /\ last.asked /\ last.err = "nil"
    /\ Len(storage) = size /\ size = 2
    /\ storage[2].Stmt.id \notin closed

\* C30: a Prepare that directly follows a Purge which removed the entry of
\* its text, and whose preparation succeeds, is a miss: it prepares a new
\* statement, counts it, stores the new entry and returns it open; the
\* handle is not the one the Purge closed.
C30_UsableAfterPurge ==
    (last.op = "Prepare" /\ last.after = "Purge" /\ last.err # "prepare") =>
        /\ last.err = "nil"
        /\ ~last.found
        /\ last.asked
        /\ last.counted
        /\ storage = <<last.ret>>
        /\ last.ret.Stmt.id \notin closed
        /\ last.ret.Stmt # last.afterStmt
        /\ last.afterStmt.id \in closed
        /\ created = prepared

C30_Witness ==
    /\ last.op = "Prepare" /\ last.after = "Purge" /\ last.err = "nil"
    /\ last.afterStmt.text = last.query /\ last.ret.Stmt.id = prepared

\* C14: on a cache constructed with a capacity that is absent or 0, by the
\* provider or by New, the capacity is the default (256) and Prepare,
\* PrepareNamed and Purge work: none of them fails on the missing index or
\* waits for ever on the LRU's mutex.
C14_ZeroCapacityFallsBack ==
    (ctor.given = 0 /\ last.op # "none") =>
        /\ size = DefaultSize
        /\ ~(last.err = "panic" /\ ~last.found)
        /\ last.err # "blocked"

\* ---- claims about goroutines sharing the cache -------------------------------
ReturnedOk(g, ops) ==
    /\ gor[g].pc = "idle"
    /\ gor[g].op \in ops
    /\ gor[g].err = "nil"

\* C11: when every goroutine has returned successfully from a Prepare of one
\* text that had no entry when each call began, and the calls overlapped (each
\* began at the same value of the creation counter), exactly one statement
\* was created for them, and each handle was open when it was returned.
C11_ConcurrentPrepareCreatesOnce ==
    \A q \in GoQueries, c0 \in 0..MaxStmts :
        (\A g \in Goroutines :
            /\ ReturnedOk(g, {"Prepare"})
            /\ gor[g].query = q
            /\ gor[g].startMiss
            /\ gor[g].startCreated = c0)
        => /\ created = c0 + 1
           /\ \A g \in Goroutines : gor[g].retClosed = {}

\* C12: when no call is in flight, every statement the database prepared is
\* either held by an entry of the index or closed.
C12_NoHandleLeak ==
    Quiescent => (1..prepared) \ closed \subseteq HandlesOf(storage)

\* C20: a Prepare or PrepareNamed that returns successfully never returns a
\* handle that a Purge running during the call has closed.
C20_PurgeNeverClosesReturnedHandle ==
    \A g \in Goroutines :
        ReturnedOk(g, {"Prepare", "PrepareNamed"}) => gor[g].stale = {}

\* C22: in every state the goroutines can reach, the index holds at most one
\* entry under a fingerprint.
C22_OneEntryPerFingerprint ==
    \A i, j \in 1..Len(storage) : storage[i].key = storage[j].key => i = j

C22_Witness ==
    /\ \A g \in Goroutines : ReturnedOk(g, {"Prepare", "PrepareNamed"})
    /\ gor["g1"].startMiss /\ gor["g2"].startMiss
    /\ hash(gor["g1"].query) = hash(gor["g2"].query)
    /\ gor["g1"].cached.Stmt # gor["g2"].cached.Stmt
    /\ Len(storage) = 1 /\ size > 1

\* Goroutine h takes a step of a call: it begins one, or carries its own on.
Stepped(h) ==
    <<gor[h].pc, gor[h].calls, gor[h].closes>>' #
        <<gor[h].pc, gor[h].calls, gor[h].closes>>

\* C24: from the moment a goroutine has removed entries from the index (by an
\* eviction in Add or by Purge) until it has closed their last handle, no
\* other goroutine takes a step of a Prepare, PrepareNamed or Purge.
C24_RemovalAndCloseAtomic ==
    [][\A g \in Goroutines :
          gor[g].pc = "evict" =>
              \A h \in Goroutines \ {g} : ~Stepped(h)]_vars

\* C26: every call a goroutine has begun returns (or ends in a panic),
\* whatever the other goroutines do, on a cache made by either constructor;
\* and the step in which a preparation fails leaves the index as it was.
C26_EveryCallReturns ==
    /\ \A g \in Goroutines : (gor[g].pc # "idle") ~> (gor[g].pc = "idle")
    /\ [][\A g \in Goroutines :
              (gor[g].pc = "prepare" /\ gor'[g].pc = "idle") =>
                  /\ gor'[g].err = "prepare"
                  /\ storage' = storage]_vars

\* ---- claims about the default metrics scope ----------------------------------
\* C21: the stored default scope is never nil and is the argument of the
\* latest SetDefault that returned (the initial scope if there is none); every
\* GetDefault returns that scope; SetDefault(nil) panics and stores nothing.
C21_DefaultScopeNeverNil ==
    /\ globalDefaultScope.scope # NilScope
    /\ globalDefaultScope.scope = latestSet
    /\ \A g \in Goroutines :
           /\ scopeCall[g].op = "GetDefault" =>
                  /\ scopeCall[g].ret # NilScope
                  /\ scopeCall[g].ret = scopeCall[g].latest
           /\ (scopeCall[g].op = "SetDefault" /\ scopeCall[g].arg = NilScope) =>
                  /\ scopeCall[g].err = "panic"
                  /\ scopeCall[g].latest # NilScope

C21_Witness ==
    /\ scopeCall["g1"].op = "SetDefault" /\ scopeCall["g1"].err = "panic"
    /\ scopeCall["g2"].op = "GetDefault" /\ scopeCall["g2"].ret = "s2"
    /\ globalDefaultScope.scope = "s2"

====
